---- MODULE Spec2Model ----
(***************************************************************************)
(* Block-wise Wilson-Cowan task simulation (WCTaskSim) and its             *)
(* Balloon-Windkessel stage (HRF), from                                    *)
(* src/tmfc_simulation/wilson_cowan_task_simulation.py.                    *)
(*                                                                         *)
(* Times are integers counted in ticks of 0.25 ms: one millisecond is      *)
(* TicksPerMs ticks, so round(x, 3) on a time in seconds is rounding to a  *)
(* whole millisecond.  The neural model's fine step dt is set to one       *)
(* second, so that a block of d seconds is d fine samples.  Signals are    *)
(* one region's row: a sequence of samples.                                *)
(***************************************************************************)
EXTENDS Integers, Sequences, FiniteSets, TLC

VARIABLES
    hrf,             \* self.hrf: the HRF stage (made = FALSE while it is None)
    input_rest,      \* self.input_rest: leftover fine samples of the chunker
    BOLD,            \* self.BOLD of WCTaskSim
    t_BOLD,          \* self.t_BOLD of WCTaskSim
    TR,              \* self.TR
    signal,          \* the fine signal handed to HRF.resample_to_TR
    resampled,       \* what the resample_to_TR calls returned
    recv,            \* every fine sample handed to generate_bold_chunkwise so far
    calls,           \* number of generate_bold_chunkwise calls so far
    pc,              \* position of the constructor / of generate_full_series
    args,            \* the arguments of the constructor call (of the last stage call, when the stage is called directly)
    sim,             \* the fields of the WCTaskSim instance
    run,             \* the arguments of the generate_full_series call
    i,               \* loop index of generate_full_series
    time_idxs_dict,  \* self.time_idxs_dict
    blocks,          \* the _generate_single_block calls made so far, in order
    wc               \* self.wc: the neural model, its output buffer and its position

vars == <<hrf, input_rest, BOLD, t_BOLD, TR, signal, resampled, recv, calls,
          pc, args, sim, run, i, time_idxs_dict, blocks, wc>>

hrfVars == <<hrf, input_rest, BOLD, t_BOLD, TR, recv, calls>>
rsVars == <<signal, resampled>>
simVars == <<pc, args, sim, run, i, time_idxs_dict, blocks, wc>>

(***************************************************************************)
(* Bounds and units                                                        *)
(***************************************************************************)
MaxStep == 3          \* largest resampling step (fine steps per TR)
MinStep == 2          \* the chunker's TR is longer than one fine step
MaxLen == 4           \* longest fine signal / chunk
MaxTotal == 6         \* most fine samples fed to the chunker in one run
SampleValues == {0, 1}

TicksPerMs == 4
Sec == 1000 * TicksPerMs
dt == Sec             \* wc.params["dt"], the fine step
normalize_max == 2    \* default normalize_max of generate_bold_chunkwise / generate_bold
N == 2                \* wc.params["N"]: the number of regions

(***************************************************************************)
(* Helpers                                                                 *)
(***************************************************************************)
\* Sequences over S of length lo..hi.
SeqsOf(S, lo, hi) == UNION {[1..n -> S] : n \in lo..hi}

\* int(round(num / den)) for den > 0: Python 3 rounds a tie to the even integer.
RoundDiv(num, den) ==
    LET q == num \div den
        r == num % den
    IN  IF 2 * r < den THEN q
        ELSE IF 2 * r > den THEN q + 1
        ELSE IF q % 2 = 0 THEN q ELSE q + 1

\* a[:, start::step] on a row of length Len(a); start is 0-based and >= 0.
SliceFromStep(a, start, step) ==
    LET n == IF start >= Len(a) THEN 0 ELSE (Len(a) - 1 - start) \div step + 1
    IN  [m \in 1..n |-> a[start + (m - 1) * step + 1]]

\* idxLastT + np.arange(n)
ARange(first, n) == [m \in 1..n |-> first + m - 1]

(***************************************************************************)
(* HRF                                                                     *)
(***************************************************************************)
\* HRF.__init__: the fields the stage is created with.  X_BOLD stands for the
\* physiological state (X, F, Q, V): the samples integrated so far.
HRF_init(N_, dt_, TR_, normalize_input_, normalize_max_) ==
    [made |-> TRUE,
     N |-> N_,
     dt |-> dt_,
     TR |-> TR_,
     normalize_input |-> normalize_input_,
     normalize_max |-> normalize_max_,
     samplingRate_NDt |-> RoundDiv(TR_, dt_),
     t_BOLD |-> <<>>,
     BOLD |-> <<>>,
     BOLD_chunk |-> <<>>,
     idxLastT |-> 0,
     X_BOLD |-> <<>>]

\* self.hrf = None
NoHRF ==
    [made |-> FALSE, N |-> 0, dt |-> 0, TR |-> 0, normalize_input |-> FALSE, normalize_max |-> 0,
     samplingRate_NDt |-> 0, t_BOLD |-> <<>>, BOLD |-> <<>>, BOLD_chunk |-> <<>>,
     idxLastT |-> 0, X_BOLD |-> <<>>]

\* The slice start of resample_to_TR: samplingRate_NDt - np.mod(idxLastT - 1, samplingRate_NDt)
ResampleStart(h, idxLastT) ==
    h.samplingRate_NDt - ((idxLastT - 1) % h.samplingRate_NDt)

\* HRF.resample_to_TR(signal, idxLastT) -> (t_resampled, signal_resampled)
resample_to_TR(h, sig, idxLastT) ==
    LET start == ResampleStart(h, idxLastT)
        t_new_idx == ARange(idxLastT, Len(sig))
        picked == SliceFromStep(t_new_idx, start, h.samplingRate_NDt)
    IN  [t |-> [m \in DOMAIN picked |-> picked[m] * h.dt],
         s |-> SliceFromStep(sig, start, h.samplingRate_NDt)]

\* Mutant: the call moves the stage's running offset on.
resample_to_TR_self_advancing(h, sig, idxLastT) == [h EXCEPT !.idxLastT = idxLastT + Len(sig)]

\* The stage after HRF.resample_to_TR(signal, idxLastT): the method assigns no
\* attribute of self.
resample_to_TR_self(h, sig, idxLastT) == h

\* The caller's signal after the call: the method only slices it.
resample_to_TR_signal(h, sig, idxLastT) == sig

\* simulateBOLD(activity, dt, X, F, Q, V): the Balloon-Windkessel integrator, a
\* deterministic fold over the samples that carries its state from call to call.
\* The state is the sequence of samples folded so far and the BOLD value at a fine
\* step is the state reached there, so two runs agree on a value exactly when they
\* folded the same samples in the same order.
simulateBOLD(activity, X) ==
    [BOLD_chunk |-> [j \in 1..Len(activity) |-> X \o SubSeq(activity, 1, j)],
     X |-> X \o activity]

\* self.normalize_max * activity when normalize_input is set
Normalized(h, activity) ==
    IF h.normalize_input
    THEN [j \in 1..Len(activity) |-> h.normalize_max * activity[j]]
    ELSE activity

\* Mutant: a stage that holds samples always appends.
KeepOld_always(h, append) == Len(h.BOLD) # 0

\* The three-way branch on the accumulated series: it is kept and extended only
\* when it is non-empty and append is True, otherwise replaced.
KeepOld(h, append) == Len(h.BOLD) # 0 /\ append

\* HRF.bw_convolve(activity, append): the stage after the call.
bw_convolve(h, activity, append) ==
    LET act == Normalized(h, activity)
        out == simulateBOLD(act, h.X_BOLD)
        r == resample_to_TR(h, out.BOLD_chunk, h.idxLastT)
        keep == KeepOld(h, append)
    IN  [h EXCEPT !.X_BOLD = out.X,
                  !.t_BOLD = IF keep THEN h.t_BOLD \o r.t ELSE r.t,
                  !.BOLD = IF keep THEN h.BOLD \o r.s ELSE r.s,
                  !.BOLD_chunk = r.s,
                  !.idxLastT = h.idxLastT + Len(act)]

\* Mutant: the region count of the chunk is not looked at.
ShapeOK_unchecked(h, shape0) == TRUE

\* assert activity.shape[0] == self.N
ShapeOK(h, shape0) == shape0 = h.N

\* hrf_at_dt = self._gamma_hrf(**kwargs): the kernel, here three fine steps long.
gamma_hrf == <<1, 2, 1>>

\* np.convolve(activity[i], hrf_at_dt)[:-(len(hrf_at_dt) - 1)]: the first
\* len(activity) samples of the full convolution.
RECURSIVE ConvolveAt(_, _, _, _)
ConvolveAt(activity, kernel, j, m) ==
    IF m = 0 \/ j - m + 1 < 1 THEN (IF m = 0 THEN 0 ELSE ConvolveAt(activity, kernel, j, m - 1))
    ELSE kernel[m] * activity[j - m + 1] + ConvolveAt(activity, kernel, j, m - 1)

\* HRF.gamma_convolve(activity, append): the stage after the call.
gamma_convolve(h, activity, append) ==
    LET act == Normalized(h, activity)
        BOLD_chunk == [j \in 1..Len(act) |-> ConvolveAt(act, gamma_hrf, j, Len(gamma_hrf))]
        r == resample_to_TR(h, BOLD_chunk, h.idxLastT)
        keep == KeepOld(h, append)
    IN  [h EXCEPT !.t_BOLD = IF keep THEN h.t_BOLD \o r.t ELSE r.t,
                  !.BOLD = IF keep THEN h.BOLD \o r.s ELSE r.s,
                  !.BOLD_chunk = r.s,
                  !.idxLastT = h.idxLastT + Len(act)]

(***************************************************************************)
(* WCTaskSim.generate_bold_chunkwise                                       *)
(***************************************************************************)
\* chunksize = TR * 1000 / dt
Chunksize(TR_) == TR_ \div dt

\* Mutant: every sample counts as used.
UsedLastIdxs_whole(n, chunksize) == n

\* used_last_idxs = int(new_exc.shape[1] - new_exc.shape[1] % chunksize)
UsedLastIdxs(n, chunksize) == n - (n % chunksize)

\* Mutant: the whole of new_exc is integrated, the leftover included.
BoldInput_whole(new_exc, used_last_idxs) == new_exc

\* Mutant: the slice is taken on the wrong side of used_last_idxs.
BoldInput_tail(new_exc, used_last_idxs) == SubSeq(new_exc, used_last_idxs + 1, Len(new_exc))

\* bold_input = new_exc[:, :used_last_idxs]
BoldInput(new_exc, used_last_idxs) == SubSeq(new_exc, 1, used_last_idxs)

\* the test that decides whether the stage is driven in this call
HasFullWindow(n, chunksize) == n > chunksize

\* Mutant: a stage that exists is kept, whatever is_first says.
StageFor_kept(h, is_first, TR_) ==
    IF is_first /\ ~h.made THEN HRF_init(N, dt, TR_, TRUE, normalize_max) ELSE h

\* if is_first: self.hrf = HRF(N, dt=dt, TR=TR, normalize_input=True, ...)
StageFor(h, is_first, TR_) ==
    IF is_first THEN HRF_init(N, dt, TR_, TRUE, normalize_max) ELSE h

\* generate_bold_chunkwise(TR, is_first) with wc_out the model's output of the
\* block just integrated (the signal input_type selects).
generate_bold_chunkwise(TR_, is_first, wc_out) ==
    LET chunksize == Chunksize(TR_)
        rest == IF is_first THEN <<>> ELSE input_rest
        new_exc == rest \o wc_out
        stage == StageFor(hrf, is_first, TR_)
        used_last_idxs == UsedLastIdxs(Len(new_exc), chunksize)
        after == bw_convolve(stage, BoldInput(new_exc, used_last_idxs), ~is_first)
    IN  /\ TR' = TR_
        /\ IF HasFullWindow(Len(new_exc), chunksize)
           THEN /\ input_rest' = SubSeq(new_exc, used_last_idxs + 1, Len(new_exc))
                /\ hrf' = after
                /\ BOLD' = after.BOLD
                /\ t_BOLD' = after.t_BOLD
           ELSE /\ input_rest' = new_exc
                /\ hrf' = stage
                /\ UNCHANGED <<BOLD, t_BOLD>>

\* generate_bold(bold_input, dt, TR, drop_first, conv_type="BW"): one batch call
\* on a fresh stage.
generate_bold(bold_input, dt_, TR_, drop_first) ==
    LET h == bw_convolve(HRF_init(N, dt_, TR_, TRUE, normalize_max), bold_input, FALSE)
        drop_idxs == drop_first \div TR_
    IN  [t |-> SubSeq(h.t_BOLD, drop_idxs + 1, Len(h.t_BOLD)),
         s |-> SubSeq(h.BOLD, drop_idxs + 1, Len(h.BOLD))]

(***************************************************************************)
(* WCTaskSim.__init__                                                      *)
(***************************************************************************)
\* The keys of Wij_task_dict, in the order list(Wij_task_dict.keys()) gives them.
TaskDictKeys == <<"Task_A", "Task_B">>
KnownLabels == {TaskDictKeys[k] : k \in DOMAIN TaskDictKeys}

\* Coupling matrices
\* A matrix, as its rows, with one value on the diagonal and one off it.
Mat(diag, off) == [r \in 1..N |-> [c \in 1..N |-> IF r = c THEN diag ELSE off]]

\* The matrices the caller hands over, by the name of the object: "Rest" is
\* Wij_rest, a task label is Wij_task_dict[label].  Each has self-coupling.
GivenMatrices ==
    [ref \in {"Rest"} \cup KnownLabels |->
        Mat(1, CASE ref = "Rest" -> 1 [] ref = "Task_A" -> 2 [] OTHER -> 3)]

\* Mutant: the diagonal is left as it is.
fill_diagonal_skipped(m, v) == m

\* np.fill_diagonal(m, v)
fill_diagonal(m, v) == [r \in DOMAIN m |-> [c \in DOMAIN m[r] |-> IF r = c THEN v ELSE m[r][c]]]

\* An optional list argument: given = FALSE is None.
Given(v) == [given |-> TRUE, v |-> v]
NotGiven == [given |-> FALSE, v |-> <<>>]

\* duration_list: a list, or one number for all tasks.
DurList(v) == [is_list |-> TRUE, list |-> v, scalar |-> 0]
DurScalar(d) == [is_list |-> FALSE, list |-> <<>>, scalar |-> d]

\* task_name_list = list(Wij_task_dict.keys()) when it is None
TaskNameList(a) ==
    IF a.task_name_list.given THEN a.task_name_list.v ELSE TaskDictKeys

\* sum([task_name in Wij_task_dict.keys() ...]) == len(task_name_list)
NamesFromDict(names) ==
    Cardinality({k \in DOMAIN names : names[k] \in KnownLabels}) = Len(names)

\* onset_time_list = list(np.arange(len(task_name_list))) when it is None
OnsetTimeList(a) ==
    IF a.onset_time_list.given
    THEN a.onset_time_list.v
    ELSE [k \in 1..Len(TaskNameList(a)) |-> (k - 1) * Sec]

\* if len(onset_time_list) > 1: assert (np.diff(onset_time_list) > 0).any()
OnsetsAccepted(onsets) ==
    Len(onsets) > 1 => \E k \in 1..(Len(onsets) - 1) : onsets[k + 1] - onsets[k] > 0

\* Mutant: the length of a duration list is not compared with the onsets.
DurationsAccepted_unchecked(a, onsets) == TRUE

\* isinstance(duration_list, (list, tuple)) => len(duration_list) == len(onset_time_list)
DurationsAccepted(a, onsets) ==
    a.duration_list.is_list => Len(a.duration_list.list) = Len(onsets)

\* duration_list, a scalar expanded to [duration_list] * len(onset_time_list)
DurationListOf(a, onsets) ==
    IF a.duration_list.is_list
    THEN a.duration_list.list
    ELSE [k \in 1..Len(onsets) |-> a.duration_list.scalar]

\* self.activity as the constructor leaves it (the inhibitory and synaptic
\* series are sliced and stacked exactly like exc_series and are not kept here)
NoActivity == [exc_series |-> <<>>, t |-> <<>>, idx_last_t |-> 0, started |-> FALSE]

\* The instance fields the constructor sets.  Wij holds the matrix objects
\* self.Wij_rest ("Rest") and self.Wij_task_dict[label], which the instance shares
\* with its caller and with the neural model.
SelfOf(a) ==
    [task_name_list |-> TaskNameList(a),
     onset_time_list |-> OnsetTimeList(a),
     duration_list |-> DurationListOf(a, OnsetTimeList(a)),
     rest_before |-> a.rest_before,
     first_duration |-> a.first_duration,
     last_duration |-> a.last_duration,
     append_outputs |-> a.append_outputs,
     chunkwise |-> a.chunkwise,
     bold |-> a.bold,
     bold_input_ready |-> FALSE,
     activity |-> NoActivity,
     Wij |-> GivenMatrices]

NoSelf ==
    [task_name_list |-> <<>>, onset_time_list |-> <<>>, duration_list |-> <<>>,
     rest_before |-> FALSE, first_duration |-> 0, last_duration |-> 0,
     append_outputs |-> FALSE, chunkwise |-> FALSE, bold |-> FALSE,
     bold_input_ready |-> FALSE, activity |-> NoActivity, Wij |-> GivenMatrices]

\* time_idxs_dict = {"Rest": []} updated with {key: [] for key in Wij_task_dict}
EmptyTimeIdxs == [label \in {"Rest"} \cup KnownLabels |-> <<>>]

\* WCTaskSim.__init__(...): the assertions in the order the code makes them, then
\* init_wc_model, which reads duration_list[0].
WCTaskSim_init(a) ==
    LET names == TaskNameList(a)
        onsets == OnsetTimeList(a)
    IN  IF ~NamesFromDict(names)
        THEN [ok |-> FALSE, error |-> "Name in task names not from the dict", self |-> NoSelf]
        ELSE IF Len(names) # Len(onsets)
        THEN [ok |-> FALSE, error |-> "Number of tasks should be equal to number of onset times",
              self |-> NoSelf]
        ELSE IF ~OnsetsAccepted(onsets)
        THEN [ok |-> FALSE, error |-> "Next onset time should be more than previous", self |-> NoSelf]
        ELSE IF ~DurationsAccepted(a, onsets)
        THEN [ok |-> FALSE, error |-> "Lenght of duration list should be equal to onset_time list",
              self |-> NoSelf]
        ELSE IF Len(onsets) = 0
        THEN [ok |-> FALSE, error |-> "IndexError", self |-> NoSelf]
        ELSE [ok |-> TRUE, error |-> "", self |-> SelfOf(a)]

(***************************************************************************)
(* The neural model (neurolib WCModel) as the driver uses it               *)
(***************************************************************************)
\* self.wc after the constructor WCModel(Cmat=self.Wij_rest, Dmat=self.Dmat): no
\* output yet, nothing integrated.  Cmat is the attribute wc.Cmat, the very object
\* Wij_rest the model was constructed with; params_Cmat is wc.params['Cmat'], at
\* first the model's own zero-diagonal copy of it ("default").  outputs is
\* wc.outputs['exc'] and exc the attribute wc.exc; run_args are the flags of the
\* last wc.run call.
NoWC ==
    [exc |-> <<>>, outputs |-> <<>>, steps |-> 0, duration |-> 0, Cmat |-> "Rest",
     params_Cmat |-> "default", state |-> FALSE,
     run_args |-> [append_outputs |-> FALSE, bold |-> FALSE, chunkwise |-> FALSE]]

\* Fine steps integrated for params['duration'] (in ms) at step dt.
FineSteps(duration) == IF duration > 0 THEN duration \div dt ELSE 0

\* The excitatory sample the model produces at absolute fine step k.
SampleAt(k) == k % 2

\* The excitatory and the inhibitory sample of region r at absolute fine step k.
ExcAt(r, k) == SampleAt(k + r - 1)
InhAt(r, k) == 1 - ExcAt(r, k)

\* wc.run(append_outputs, bold, continue_run=True, chunkwise): integration goes on
\* from the step the model had reached; with append_outputs the new samples are
\* stacked onto wc.outputs, and wc.exc is wc.outputs['exc'].
wc_run(w, append_outputs, bold, chunkwise) ==
    LET n == FineSteps(w.duration)
        new == [j \in 1..n |-> SampleAt(w.steps + j)]
        out == IF append_outputs THEN w.outputs \o new ELSE new
    IN  [w EXCEPT !.exc = out,
                  !.outputs = out,
                  !.steps = w.steps + n,
                  !.state = TRUE,
                  !.run_args = [append_outputs |-> append_outputs, bold |-> bold,
                                chunkwise |-> chunkwise]]

(***************************************************************************)
(* WCTaskSim.generate_neuronal_oscill                                      *)
(***************************************************************************)
c_excexc == 16
c_excinh == 15
c_inhexc == 12
c_inhinh == 3

\* row @ e over the first n regions
RECURSIVE Dot(_, _, _)
Dot(row, e, n) == IF n = 0 THEN 0 ELSE row[n] * e[n] + Dot(row, e, n - 1)

\* The absolute fine step of sample j of the model's output buffer.
StepOf(w, j) == w.steps - Len(w.exc) + j

\* generate_neuronal_oscill():
\*   sa = ee * exc + ei * exc + ie * inh + ii * inh + self.wc.Cmat @ exc
\* one row per region over the model's output buffer; wc.Cmat is the attribute.
generate_neuronal_oscill(w, Wij) ==
    [r \in 1..N |->
        [j \in 1..Len(w.exc) |->
            LET k == StepOf(w, j)
            IN  c_excexc * ExcAt(r, k) + c_excinh * ExcAt(r, k)
                + c_inhexc * InhAt(r, k) + c_inhinh * InhAt(r, k)
                + Dot(Wij[w.Cmat][r], [c \in 1..N |-> ExcAt(c, k)], N)]]

(***************************************************************************)
(* WCTaskSim._generate_single_block                                        *)
(***************************************************************************)
\* if self.chunkwise: assert duration % 2 == 0
ChunkwiseDurationOK(s, duration) ==
    s.chunkwise => duration % (2 * Sec) = 0

\* sampling_rate_dt = int(round(1000 * a_s_rate / dt))
SamplingRateDt(a_s_rate) == RoundDiv(a_s_rate, dt)

\* sampling_rate_dt - np.mod(idx_last_t - 1, sampling_rate_dt)
ActivityStart(idx_last_t, sampling_rate_dt) ==
    sampling_rate_dt - ((idx_last_t - 1) % sampling_rate_dt)

\* The "if activity:" part: the new block's output, downsampled and stacked onto
\* the accumulated series, and the global offset moved on.
ActivityAfter(act, exc, a_s_rate) ==
    LET idx_last_t == act.idx_last_t
        sampling_rate_dt == SamplingRateDt(a_s_rate)
        start == ActivityStart(idx_last_t, sampling_rate_dt)
        new_exc_activity == SliceFromStep(exc, start, sampling_rate_dt)
        new_idx_t == ARange(idx_last_t, Len(exc))
        picked == SliceFromStep(new_idx_t, start, sampling_rate_dt)
        t_activity == [m \in DOMAIN picked |-> dt * picked[m]]
    IN  [exc_series |-> IF act.started THEN act.exc_series \o new_exc_activity
                        ELSE new_exc_activity,
         t |-> IF act.started THEN act.t \o t_activity ELSE t_activity,
         idx_last_t |-> idx_last_t + Len(exc),
         started |-> TRUE]

\* Mutant: the diagonal is zeroed in a copy, the caller's matrix is left alone.
InstallCmat_copy(Wij, Cmat) == Wij

\* self.wc.params['Cmat'] = Cmat; np.fill_diagonal(self.wc.params['Cmat'], 0):
\* params['Cmat'] is the caller's array itself, so it is that array whose diagonal
\* is zeroed.  Wij holds the caller's matrices by label.
InstallCmat(Wij, Cmat) == [Wij EXCEPT ![Cmat] = fill_diagonal(@, 0)]

\* _generate_single_block(Cmat, duration, activity, a_s_rate): ok = FALSE when the
\* assertion at its top raises, and then nothing has been changed.
generate_single_block(s, w, Cmat, duration, r) ==
    IF ~ChunkwiseDurationOK(s, duration)
    THEN [ok |-> FALSE, wc |-> w, activity |-> s.activity, Wij |-> s.Wij]
    ELSE LET Wij1 == InstallCmat(s.Wij, Cmat)
             w1 == wc_run([w EXCEPT !.params_Cmat = Cmat, !.duration = duration],
                          s.append_outputs, s.bold, s.chunkwise)
         IN  [ok |-> TRUE,
              wc |-> w1,
              Wij |-> Wij1,
              activity |-> IF r.activity
                           THEN ActivityAfter(s.activity, w1.exc, r.a_s_rate)
                           ELSE s.activity]

(***************************************************************************)
(* WCTaskSim.generate_full_series and the blocks it schedules              *)
(***************************************************************************)
\* round(x, 3) on a time in seconds
Round3(x) == RoundDiv(x, TicksPerMs) * TicksPerMs

\* Mutant: the interval is recorded as start and length.
Interval_startLength(start, end) == <<Round3(start), Round3(end - start)>>

\* [round(start, 3), round(end, 3)]
Interval(start, end) == <<Round3(start), Round3(end)>>

\* Mutant: the new interval replaces what was recorded under the label.
RecordInterval_overwrite(d, label, interval) == [d EXCEPT ![label] = <<interval>>]

\* self.time_idxs_dict[label].append(interval)
RecordInterval(d, label, interval) == [d EXCEPT ![label] = Append(@, interval)]

\* Mutant: the leading rest starts first_duration before the first onset.
FirstRestStart_fromOnset(s) ==
    IF s.rest_before THEN s.onset_time_list[1] - s.first_duration ELSE 0

\* _generate_first_rest: start_time_rest
FirstRestStart(s) == IF s.rest_before THEN 0 - s.first_duration ELSE 0

\* _generate_first_rest: duration
FirstRestDuration(s) ==
    IF s.rest_before
    THEN (0 - FirstRestStart(s)) + s.onset_time_list[1]
    ELSE s.onset_time_list[1]

\* _generate_first_rest: end_time_rest
FirstRestEnd(s) == s.onset_time_list[1]

\* Mutant: the trailing rest starts at the last onset.
LastRestStart_atOnset(s) == s.onset_time_list[Len(s.onset_time_list)]

\* _generate_last_rest: start_time_rest = onset_time_list[-1] + duration_list[-1]
LastRestStart(s) ==
    s.onset_time_list[Len(s.onset_time_list)] + s.duration_list[Len(s.duration_list)]

\* the gap after task k: onset_time_list[k + 1] - onset_time_list[k] - duration_list[k]
GapAfter(s, k) == s.onset_time_list[k + 1] - s.onset_time_list[k] - s.duration_list[k]

\* Mutant: a zero gap gets a rest block too.
GapNeedsRest_orZero(duration) == duration >= 0

\* if duration > 0:
GapNeedsRest(duration) == duration > 0

\* One entry of the log of simulated blocks: what was scheduled, and what the
\* neural model was run with (b is the outcome of _generate_single_block);
\* syn_act_series is what generate_neuronal_oscill() returns at line 305.
Block(kind, idx, label, start, end, duration, b) ==
    [kind |-> kind, idx |-> idx, label |-> label, start |-> start, end |-> end,
     duration |-> duration, n |-> FineSteps(duration),
     Cmat |-> b.wc.params_Cmat,
     coupling |-> b.Wij[b.wc.params_Cmat],
     run_args |-> b.wc.run_args,
     first_step |-> StepOf(b.wc, 1),
     syn_act_series |-> generate_neuronal_oscill(b.wc, b.Wij)]

\* Mutant: the built-in options are left as the instance was configured.
ChunkwiseOptions_keepBuiltin(s) == [s EXCEPT !.bold_input_ready = TRUE]

\* if bold_chunkwise: bold_input_ready = True, append_outputs = False,
\* bold = False (after a printed warning when it was True), chunkwise = False
ChunkwiseOptions(s) ==
    [s EXCEPT !.bold_input_ready = TRUE, !.append_outputs = FALSE,
              !.bold = FALSE, !.chunkwise = FALSE]

\* Mutant: a first rest of exactly one repetition time is refused.
FirstRestLongEnough_strict(n, chunksize) == n > chunksize

\* assert self.wc['exc'].shape[1] >= chunksize
FirstRestLongEnough(n, chunksize) == n >= chunksize

\* generate_full_series, lines 424-441: the options are stored and, for
\* bold_chunkwise, the model's own BOLD, chunkwise and appending are switched off.
BeginRun(r) ==
    /\ run' = r
    /\ TR' = r.TR
    /\ sim' = IF r.bold_chunkwise THEN ChunkwiseOptions(sim) ELSE sim
    /\ i' = 1
    /\ pc' = "first_rest"
    /\ UNCHANGED <<args, time_idxs_dict, blocks, wc, hrf, input_rest, BOLD, t_BOLD,
                   recv, calls, rsVars>>

\* Mutant: every block is fed as a first chunk.
FeedBold_restart(is_first, w) ==
    IF run.bold_chunkwise
    THEN /\ generate_bold_chunkwise(run.TR, TRUE, w.exc)
         /\ recv' = w.exc
         /\ calls' = calls + 1
    ELSE UNCHANGED hrfVars

\* The first call of generate_full_series on the instance.
StartRun(r) ==
    /\ pc = "ready"
    /\ BeginRun(r)

\* The number of generate_full_series calls that simulated their leading rest.
RunsLogged(bs) == Cardinality({k \in DOMAIN bs : bs[k].kind = "first_rest"})

\* The hemodynamic stage after a block, when bold_chunkwise is set.
FeedBold(is_first, w) ==
    IF run.bold_chunkwise
    THEN /\ generate_bold_chunkwise(run.TR, is_first, w.exc)
         /\ recv' = (IF is_first THEN <<>> ELSE recv) \o w.exc
         /\ calls' = calls + 1
    ELSE UNCHANGED hrfVars

\* _generate_first_rest, the length assertion and the first chunkwise call.
FirstRest ==
    /\ pc = "first_rest"
    /\ LET start_time_rest == FirstRestStart(sim)
           duration == FirstRestDuration(sim)
           end_time_rest == FirstRestEnd(sim)
           b == generate_single_block(sim, wc, "Rest", duration, run)
       IN  IF ~b.ok
           THEN /\ pc' = "error_first_rest"
                /\ UNCHANGED <<sim, wc, blocks, time_idxs_dict, hrfVars>>
           ELSE /\ wc' = b.wc
                /\ sim' = [sim EXCEPT !.activity = b.activity, !.Wij = b.Wij]
                /\ blocks' = Append(blocks, Block("first_rest", 0, "Rest", start_time_rest,
                                                  end_time_rest, duration, b))
                /\ time_idxs_dict' =
                       RecordInterval(time_idxs_dict, "Rest", Interval(start_time_rest, end_time_rest))
                /\ IF run.bold_chunkwise
                      /\ ~FirstRestLongEnough(Len(b.wc.outputs), Chunksize(run.TR))
                   THEN /\ pc' = "error_first_rest_length"
                        /\ UNCHANGED hrfVars
                   ELSE /\ pc' = "task"
                        /\ FeedBold(TRUE, b.wc)
    /\ UNCHANGED <<args, run, i, rsVars>>

\* The loop body up to the task's entry in time_idxs_dict (lines 455-474).
TaskBlock ==
    /\ pc = "task"
    /\ LET task_name == sim.task_name_list[i]
           onset_time == sim.onset_time_list[i]
           duration == sim.duration_list[i]
           b == generate_single_block(sim, wc, task_name, duration, run)
       IN  IF ~b.ok
           THEN /\ pc' = "error_task"
                /\ UNCHANGED <<sim, wc, blocks, time_idxs_dict, hrfVars>>
           ELSE /\ wc' = b.wc
                /\ sim' = [sim EXCEPT !.activity = b.activity, !.Wij = b.Wij]
                /\ blocks' = Append(blocks, Block("task", i, task_name, onset_time,
                                                  onset_time + duration, duration, b))
                /\ FeedBold(FALSE, b.wc)
                /\ time_idxs_dict' =
                       RecordInterval(time_idxs_dict, task_name, Interval(onset_time, onset_time + duration))
                /\ pc' = IF i < Len(sim.onset_time_list) THEN "inter" ELSE "last"
    /\ UNCHANGED <<args, run, i, rsVars>>

\* if i < len(onset_time_list) - 1: the rest block of a positive gap (lines 475-495).
InterRest ==
    /\ pc = "inter"
    /\ LET duration == GapAfter(sim, i)
           start_time_rest == sim.onset_time_list[i] + sim.duration_list[i]
           end_time_rest == sim.onset_time_list[i + 1]
           b == generate_single_block(sim, wc, "Rest", duration, run)
       IN  IF ~GapNeedsRest(duration)
           THEN /\ pc' = "clear"
                /\ UNCHANGED <<sim, wc, blocks, time_idxs_dict, hrfVars>>
           ELSE IF ~b.ok
           THEN /\ pc' = "error_inter"
                /\ UNCHANGED <<sim, wc, blocks, time_idxs_dict, hrfVars>>
           ELSE /\ wc' = b.wc
                /\ sim' = [sim EXCEPT !.activity = b.activity, !.Wij = b.Wij]
                /\ blocks' = Append(blocks, Block("inter_rest", i, "Rest", start_time_rest,
                                                  end_time_rest, duration, b))
                /\ FeedBold(FALSE, b.wc)
                /\ time_idxs_dict' =
                       RecordInterval(time_idxs_dict, "Rest", Interval(start_time_rest, end_time_rest))
                /\ pc' = "clear"
    /\ UNCHANGED <<args, run, i, rsVars>>

\* else: _generate_last_rest and its chunkwise call (lines 496-506).
LastRest ==
    /\ pc = "last"
    /\ LET start_time_rest == LastRestStart(sim)
           duration == sim.last_duration
           end_time_rest == start_time_rest + duration
           b == generate_single_block(sim, wc, "Rest", duration, run)
       IN  IF ~b.ok
           THEN /\ pc' = "error_last"
                /\ UNCHANGED <<sim, wc, blocks, time_idxs_dict, hrfVars>>
           ELSE /\ wc' = b.wc
                /\ sim' = [sim EXCEPT !.activity = b.activity, !.Wij = b.Wij]
                /\ blocks' = Append(blocks, Block("last_rest", i, "Rest", start_time_rest,
                                                  end_time_rest, duration, b))
                /\ time_idxs_dict' =
                       RecordInterval(time_idxs_dict, "Rest", Interval(start_time_rest, end_time_rest))
                /\ FeedBold(FALSE, b.wc)
                /\ pc' = "clear"
    /\ UNCHANGED <<args, run, i, rsVars>>

\* The end of the loop body (lines 508-513): the raw buffers are dropped when
\* clear_raw is set; wc.outputs and wc.state are replaced by empty dotdicts whatever
\* clear_raw is; and the loop moves on.  (The samples the model produces after its
\* state was dropped are not modelled: SampleAt stays a function of the step.)
ClearRaw ==
    /\ pc = "clear"
    /\ wc' = [wc EXCEPT !.exc = IF run.clear_raw THEN <<>> ELSE @,
                        !.outputs = <<>>,
                        !.state = FALSE]
    /\ i' = i + 1
    /\ pc' = IF i < Len(sim.onset_time_list) THEN "task" ELSE "done"
    /\ UNCHANGED <<args, sim, run, time_idxs_dict, blocks, hrfVars, rsVars>>

(***************************************************************************)
(* Values of the parts of the state a specification does not use          *)
(***************************************************************************)
NoArgs ==
    [task_name_list |-> NotGiven, onset_time_list |-> NotGiven, duration_list |-> DurScalar(0),
     rest_before |-> FALSE, first_duration |-> 0, last_duration |-> 0,
     append_outputs |-> FALSE, chunkwise |-> FALSE, bold |-> FALSE]

NoRun == [bold_chunkwise |-> FALSE, TR |-> 0, activity |-> FALSE, a_s_rate |-> 0,
          clear_raw |-> FALSE]

NoResult == [done |-> FALSE, k |-> 0, t |-> <<>>, s |-> <<>>]

IdleSim ==
    /\ pc = "idle"
    /\ args = NoArgs
    /\ sim = NoSelf
    /\ run = NoRun
    /\ i = 0
    /\ time_idxs_dict = EmptyTimeIdxs
    /\ blocks = <<>>
    /\ wc = NoWC

IdleHRFClient ==
    /\ input_rest = <<>>
    /\ BOLD = <<>>
    /\ t_BOLD = <<>>
    /\ TR = 0
    /\ recv = <<>>
    /\ calls = 0

IdleResampler ==
    /\ signal = <<>>
    /\ resampled = [whole |-> NoResult, split |-> NoResult, first |-> NoResult,
                    again |-> NoResult]

(***************************************************************************)
(* Resampler harness: one fine signal, resampled whole and in two pieces   *)
(***************************************************************************)
InitResample ==
    /\ \E step \in 1..MaxStep : hrf = HRF_init(N, dt, step * dt, TRUE, normalize_max)
    /\ signal \in SeqsOf(SampleValues, 2, MaxLen)
    /\ resampled = [whole |-> NoResult, split |-> NoResult, first |-> NoResult,
                    again |-> NoResult]
    /\ IdleHRFClient
    /\ IdleSim

\* hrf.resample_to_TR(signal): one call over the whole signal, offset 0.
ResampleWhole ==
    /\ ~resampled.whole.done
    /\ LET r == resample_to_TR(hrf, signal, 0)
       IN  resampled' = [resampled EXCEPT !.whole = [done |-> TRUE, k |-> 0, t |-> r.t, s |-> r.s]]
    /\ UNCHANGED <<signal, hrfVars, simVars>>

\* hrf.resample_to_TR(signal[:, :k]) then hrf.resample_to_TR(signal[:, k:], idxLastT=k),
\* the two outputs concatenated with np.hstack.
ResampleSplit(k) ==
    /\ ~resampled.split.done
    /\ LET a == resample_to_TR(hrf, SubSeq(signal, 1, k), 0)
           b == resample_to_TR(hrf, SubSeq(signal, k + 1, Len(signal)), k)
       IN  resampled' = [resampled EXCEPT
                            !.split = [done |-> TRUE, k |-> k, t |-> a.t \o b.t, s |-> a.s \o b.s]]
    /\ UNCHANGED <<signal, hrfVars, simVars>>

\* hrf.resample_to_TR(signal, idxLastT=k) twice in a row.
ResampleTwice(k) ==
    /\ ~resampled.again.done
    /\ LET r1 == resample_to_TR(hrf, signal, k)
           h1 == resample_to_TR_self(hrf, signal, k)
           s1 == resample_to_TR_signal(hrf, signal, k)
           r2 == resample_to_TR(h1, s1, k)
       IN  /\ resampled' = [resampled EXCEPT
                                !.first = [done |-> TRUE, k |-> k, t |-> r1.t, s |-> r1.s],
                                !.again = [done |-> TRUE, k |-> k, t |-> r2.t, s |-> r2.s]]
           /\ hrf' = resample_to_TR_self(h1, s1, k)
           /\ signal' = resample_to_TR_signal(h1, s1, k)
    /\ UNCHANGED <<input_rest, BOLD, t_BOLD, TR, recv, calls, simVars>>

NextResample ==
    \/ ResampleWhole
    \/ \E k \in 1..(Len(signal) - 1) : ResampleSplit(k)
    \/ \E k \in 0..MaxLen : ResampleTwice(k)

SpecResample == InitResample /\ [][NextResample]_vars

\* C1: resampling [0,k) with offset 0 and [k,L) with offset k and concatenating
\* gives exactly the samples and time stamps of resampling the whole signal once
\* with offset 0, for every step >= 1 and every split 0 < k < L.
C1_ResamplerContinuity ==
    (resampled.whole.done /\ resampled.split.done) =>
        /\ resampled.split.t = resampled.whole.t
        /\ resampled.split.s = resampled.whole.s

InitChunk ==
    /\ hrf = NoHRF
    /\ input_rest = <<>>
    /\ BOLD = <<>>
    /\ t_BOLD = <<>>
    /\ \E step \in MinStep..MaxStep : TR = step * dt
    /\ recv = <<>>
    /\ calls = 0
    /\ IdleResampler
    /\ IdleSim

\* The first block of a run: is_first = True.
ChunkFirst(wc_out) ==
    /\ calls = 0
    /\ generate_bold_chunkwise(TR, TRUE, wc_out)
    /\ recv' = wc_out
    /\ calls' = 1
    /\ UNCHANGED <<rsVars, simVars>>

\* Every later block: is_first = False.
ChunkNext(wc_out) ==
    /\ calls > 0
    /\ Len(recv) + Len(wc_out) <= MaxTotal
    /\ generate_bold_chunkwise(TR, FALSE, wc_out)
    /\ recv' = recv \o wc_out
    /\ calls' = calls + 1
    /\ UNCHANGED <<rsVars, simVars>>

NextChunk ==
    \/ calls = 0 /\ \E wc_out \in SeqsOf(SampleValues, 1, MaxLen) : ChunkFirst(wc_out)
    \/ calls > 0 /\ \E wc_out \in SeqsOf(SampleValues, 1, MaxLen) : ChunkNext(wc_out)

SpecChunk == InitChunk /\ [][NextChunk]_vars

\* C2: after chunkwise calls whose chunk lengths sum to T fine steps, the stage
\* holds floor(T / chunksize) coarse BOLD samples.
C2_EmittedCount ==
    calls > 0 => Len(hrf.BOLD) = Len(recv) \div Chunksize(TR)

\* C3: after every chunkwise call the leftover buffer holds strictly fewer than
\* chunksize fine samples.
C3_LeftoverBound ==
    calls > 0 => Len(input_rest) < Chunksize(TR)

\* C5: at every coarse time stamp present both in the chunkwise stage and in one
\* batch call over all samples received so far, the BOLD values are equal.
C5_ChunkwiseEqualsBatch ==
    calls > 0 =>
        \A drop_first \in {0, TR} :
            LET batch == generate_bold(recv, dt, TR, drop_first)
            IN  \A m \in DOMAIN hrf.t_BOLD : \A n \in DOMAIN batch.t :
                    hrf.t_BOLD[m] = batch.t[n] => hrf.BOLD[m] = batch.s[n]

\* A run of at least two calls that emitted in pieces and left samples over.
C5_Witness ==
    /\ calls >= 2
    /\ Len(hrf.BOLD) >= 2
    /\ Len(input_rest) > 0
    /\ Len(generate_bold(recv, dt, TR, 0).t) >= 2

\* C21 as stated: after every chunkwise call the physiological state has been
\* advanced over every fine sample received so far, the samples left in the
\* leftover buffer included.
C21_FullChunkIntegrated ==
    calls > 0 => hrf.X_BOLD = Normalized(hrf, recv)

\* C21 amended: after every chunkwise call the physiological state has been
\* advanced over exactly the first idxLastT samples received, and the leftover
\* buffer holds the samples after them, not yet integrated; they reach the
\* integrator at the head of a later call.
C21_WindowsIntegrated ==
    /\ [](calls > 0 =>
              /\ hrf.X_BOLD = Normalized(hrf, SubSeq(recv, 1, hrf.idxLastT))
              /\ input_rest = SubSeq(recv, hrf.idxLastT + 1, Len(recv)))
    /\ [][(calls > 0 /\ calls' = calls + 1 /\ hrf'.idxLastT > hrf.idxLastT /\ input_rest # <<>>) =>
              SubSeq(hrf'.X_BOLD, Len(hrf.X_BOLD) + 1, Len(hrf.X_BOLD) + Len(input_rest))
                  = Normalized(hrf, input_rest)]_vars

\* A call that left samples over after an earlier call had integrated some.
C21_Witness ==
    /\ calls >= 3
    /\ hrf.idxLastT > Chunksize(TR)
    /\ Len(input_rest) > 0

\* C23: since the last is_first call, idxLastT plus the length of the leftover
\* buffer is the number of fine samples received, idxLastT is a multiple of
\* chunksize, and the integrator has been handed every sample it got exactly once
\* and in the order of arrival.
C23_SampleConservation ==
    calls > 0 =>
        /\ hrf.idxLastT + Len(input_rest) = Len(recv)
        /\ hrf.idxLastT % Chunksize(TR) = 0
        /\ Len(hrf.X_BOLD) = hrf.idxLastT
        /\ \A j \in 1..Len(hrf.X_BOLD) : hrf.X_BOLD[j] = hrf.normalize_max * recv[j]

\* Three or more calls, samples integrated in more than one of them, some left.
C23_Witness ==
    /\ calls >= 3
    /\ hrf.idxLastT >= 2 * Chunksize(TR)
    /\ Len(hrf.BOLD) >= 2
    /\ Len(input_rest) > 0

(***************************************************************************)
(* The stage called directly with chunks of any region count              *)
(***************************************************************************)
InitConvolve ==
    /\ \E n \in 1..N, step \in 1..MinStep : hrf = HRF_init(n, dt, step * dt, TRUE, normalize_max)
    /\ IdleHRFClient
    /\ IdleResampler
    /\ pc = "stage_ready"
    /\ args = NoArgs
    /\ sim = NoSelf
    /\ run = NoRun
    /\ i = 0
    /\ time_idxs_dict = EmptyTimeIdxs
    /\ blocks = <<>>
    /\ wc = NoWC

\* hrf.bw_convolve(activity, append) with activity of shape0 rows; i keeps shape0,
\* signal the row and args the append flag of the last call.
BwConvolve(shape0, activity, append) ==
    /\ calls <= MinStep
    /\ hrf.idxLastT + Len(activity) <= MaxTotal
    /\ IF ShapeOK(hrf, shape0)
       THEN /\ hrf' = bw_convolve(hrf, activity, append)
            /\ pc' = "convolved"
       ELSE /\ hrf' = hrf
            /\ pc' = "shape_error"
    /\ i' = shape0
    /\ signal' = activity
    /\ args' = [append |-> append]
    /\ calls' = calls + 1
    /\ UNCHANGED <<input_rest, BOLD, t_BOLD, TR, recv, resampled, sim, run,
                   time_idxs_dict, blocks, wc>>

\* hrf.gamma_convolve(activity, append) with activity of shape0 rows.
GammaConvolve(shape0, activity, append) ==
    /\ calls <= MinStep
    /\ hrf.idxLastT + Len(activity) <= MaxTotal
    /\ IF ShapeOK(hrf, shape0)
       THEN /\ hrf' = gamma_convolve(hrf, activity, append)
            /\ pc' = "convolved"
       ELSE /\ hrf' = hrf
            /\ pc' = "shape_error"
    /\ i' = shape0
    /\ signal' = activity
    /\ args' = [append |-> append]
    /\ calls' = calls + 1
    /\ UNCHANGED <<input_rest, BOLD, t_BOLD, TR, recv, resampled, sim, run,
                   time_idxs_dict, blocks, wc>>

NextConvolve ==
    \E shape0 \in 1..N, activity \in SeqsOf(SampleValues, 1, MinStep), append \in BOOLEAN :
        \/ BwConvolve(shape0, activity, append)
        \/ GammaConvolve(shape0, activity, append)

SpecConvolve == InitConvolve /\ [][NextConvolve]_vars

\* C16: a convolution call with an activity chunk whose region count differs from
\* the stage's N raises at once and leaves the whole hemodynamic state as it was:
\* the physiological state, idxLastT, the BOLD series and its time stamps.
C16_ShapeMismatch ==
    [][(calls' = calls + 1 /\ i' # hrf.N) =>
          /\ pc' = "shape_error"
          /\ hrf' = hrf]_vars

\* C24: after any sequence of bw_convolve and gamma_convolve calls, with any mix
\* of append, BOLD and t_BOLD have the same number of coarse samples; a call with
\* append = False on a stage that holds samples replaces the series by the new
\* chunk's samples, while idxLastT and the physiological state go on from the call
\* before.
C24_BoldTimeAlignment ==
    /\ [](Len(hrf.BOLD) = Len(hrf.t_BOLD))
    /\ [][(/\ Len(hrf.BOLD) # 0
            /\ pc' = "convolved"
            /\ ~args'.append) =>
              /\ hrf'.BOLD = hrf'.BOLD_chunk
              /\ \A m \in 1..Len(hrf'.t_BOLD) :
                     /\ hrf'.t_BOLD[m] > hrf.idxLastT * hrf.dt
                     /\ hrf'.t_BOLD[m] < hrf'.idxLastT * hrf.dt
              /\ hrf'.idxLastT = hrf.idxLastT + Len(signal')
              /\ SubSeq(hrf'.X_BOLD, 1, Len(hrf.X_BOLD)) = hrf.X_BOLD]_vars

\* Two accepted calls: the first emitted samples, the second replaced them by its
\* own (the series starts after the first call's samples).
C24_Witness ==
    /\ pc = "convolved"
    /\ calls = 2
    /\ ~args.append
    /\ hrf.idxLastT - Len(signal) >= 2
    /\ Len(hrf.BOLD) >= 1
    /\ hrf.BOLD = hrf.BOLD_chunk
    /\ hrf.t_BOLD[1] > (hrf.idxLastT - Len(signal)) * hrf.dt

\* A refused call on a stage that had already integrated and emitted samples.
C16_Witness ==
    /\ pc = "shape_error"
    /\ i # hrf.N
    /\ hrf.idxLastT > 0
    /\ Len(hrf.BOLD) >= 1
    /\ Len(hrf.X_BOLD) >= 1

(***************************************************************************)
(* Construction on its own: any lists, valid or not                        *)
(***************************************************************************)
MaxTasks == 3         \* longest design
OnsetValues == {0, 1 * Sec, 2 * Sec, 3 * Sec}
AnyLabels == KnownLabels \cup {"Task_X"}

\* The constructor's defaults for what a design does not set.
DefaultArgs ==
    [NoArgs EXCEPT !.duration_list = DurScalar(3 * Sec), !.rest_before = TRUE,
                   !.first_duration = 6 * Sec, !.last_duration = 8 * Sec]

\* The lists a construction is tried with: any labels, any onsets, any length.
NameArgs == {NotGiven} \cup {Given(v) : v \in SeqsOf(AnyLabels, 0, MaxTasks)}
OnsetArgs == {NotGiven} \cup {Given(v) : v \in SeqsOf(OnsetValues, 0, MaxTasks)}
DurArgs == {DurScalar(3 * Sec)} \cup {DurList(v) : v \in SeqsOf({3 * Sec}, 0, MaxTasks)}

InitCtor ==
    /\ pc = "new"
    /\ args = NoArgs
    /\ sim = NoSelf
    /\ run = NoRun
    /\ i = 0
    /\ time_idxs_dict = EmptyTimeIdxs
    /\ blocks = <<>>
    /\ wc = NoWC
    /\ hrf = NoHRF
    /\ IdleHRFClient
    /\ IdleResampler

\* WCTaskSim(Wij_task_dict, Wij_rest, D, onset_time_list, task_name_list, duration_list, ...)
Construct(a) ==
    /\ pc = "new"
    /\ args' = a
    /\ LET r == WCTaskSim_init(a)
       IN  /\ pc' = IF r.ok THEN "ready" ELSE "ctor_error"
           /\ sim' = r.self
           /\ time_idxs_dict' = EmptyTimeIdxs
    /\ UNCHANGED <<run, i, blocks, wc, hrfVars, rsVars>>

NextCtor ==
    /\ pc = "new"
    /\ \E n \in NameArgs, o \in OnsetArgs, d \in DurArgs :
           Construct([DefaultArgs EXCEPT !.task_name_list = n, !.onset_time_list = o,
                                         !.duration_list = d])

SpecCtor == InitCtor /\ [][NextCtor]_vars

StrictlyIncreasing(onsets) ==
    \A k \in 1..(Len(onsets) - 1) : onsets[k] < onsets[k + 1]

\* C9: constructing with an onset list of two or more entries that is not strictly
\* increasing at every consecutive pair fails with an error and produces no
\* simulation object.
C9_OnsetMonotonicity ==
    (pc # "new" /\ args.onset_time_list.given
        /\ Len(args.onset_time_list.v) >= 2
        /\ ~StrictlyIncreasing(args.onset_time_list.v))
    => (pc = "ctor_error" /\ sim = NoSelf)

\* C10: construction fails when the number of onsets differs from the number of
\* labels, when a duration list's length differs from the number of onsets, or when
\* a label is not a key of the task-matrix mapping; after a successful construction
\* the three lists have one length, every label is a key, and a scalar duration
\* has been expanded to one entry per onset.
C10_DesignCompleteness ==
    LET names == TaskNameList(args)
        onsets == OnsetTimeList(args)
    IN  /\ (pc # "new" /\ Len(onsets) # Len(names)) => pc = "ctor_error"
        /\ (pc # "new" /\ args.duration_list.is_list
                /\ Len(args.duration_list.list) # Len(onsets)) => pc = "ctor_error"
        /\ (pc # "new" /\ \E k \in DOMAIN names : names[k] \notin KnownLabels)
                => pc = "ctor_error"
        /\ pc = "ready" =>
                /\ Len(sim.onset_time_list) = Len(sim.task_name_list)
                /\ Len(sim.duration_list) = Len(sim.onset_time_list)
                /\ \A k \in DOMAIN sim.task_name_list : sim.task_name_list[k] \in KnownLabels
                /\ ~args.duration_list.is_list =>
                        \A k \in DOMAIN sim.duration_list :
                            sim.duration_list[k] = args.duration_list.scalar

\* An accepted design with a scalar duration expanded over two or more onsets.
C10_Witness ==
    /\ pc = "ready"
    /\ ~args.duration_list.is_list
    /\ Len(sim.duration_list) >= 2
    /\ args.task_name_list.given

(***************************************************************************)
(* A run of generate_full_series on an accepted design                     *)
(***************************************************************************)
Jitter == {0, 1}      \* onsets on a whole millisecond, or a quarter past it
DurListValues == {1 * Sec, 2 * Sec}
DefaultTR == 2 * Sec

\* The task labels of a design of n tasks: the two tasks alternating.
NamesFor(n) ==
    {[k \in 1..n |-> IF k % 2 = 1 THEN "Task_A" ELSE "Task_B"]}

\* Onsets in the order of time; two tasks may share an onset.
InTimeOrder(o) == \A k \in 1..(Len(o) - 1) : o[k] <= o[k + 1]

\* The built-in generation modes an instance is configured with.
BuiltinModes ==
    {[chunkwise |-> FALSE, bold |-> FALSE, append_outputs |-> FALSE],
     [chunkwise |-> TRUE, bold |-> FALSE, append_outputs |-> FALSE],
     [chunkwise |-> FALSE, bold |-> TRUE, append_outputs |-> FALSE],
     [chunkwise |-> FALSE, bold |-> FALSE, append_outputs |-> TRUE],
     [chunkwise |-> TRUE, bold |-> TRUE, append_outputs |-> TRUE]}

\* A design of n tasks: labels, onsets o shifted by j, durations d, modes m.
Design(names, o, j, d, rb, m) ==
    [DefaultArgs EXCEPT !.task_name_list = Given(names),
                        !.onset_time_list = Given([k \in DOMAIN o |-> o[k] + j]),
                        !.duration_list = d,
                        !.rest_before = rb,
                        !.chunkwise = m.chunkwise,
                        !.bold = m.bold,
                        !.append_outputs = m.append_outputs]

DurArgsFor(n) == {DurScalar(3 * Sec)} \cup {DurList(v) : v \in [1..n -> DurListValues]}

RunOptions ==
    {[bold_chunkwise |-> bc, TR |-> DefaultTR, activity |-> TRUE, a_s_rate |-> 2 * Sec,
      clear_raw |-> cr] : bc \in BOOLEAN, cr \in BOOLEAN}

\* The state after a construction that succeeded.
Init ==
    /\ \E n \in 1..MaxTasks :
        \E names \in NamesFor(n), o \in [1..n -> OnsetValues], j \in Jitter,
           d \in DurArgsFor(n), rb \in BOOLEAN, m \in BuiltinModes :
            /\ InTimeOrder(o)
            /\ args = Design(names, o, j, d, rb, m)
    /\ WCTaskSim_init(args).ok
    /\ sim = WCTaskSim_init(args).self
    /\ pc = "ready"
    /\ run = NoRun
    /\ i = 0
    /\ time_idxs_dict = EmptyTimeIdxs
    /\ blocks = <<>>
    /\ wc = NoWC
    /\ hrf = NoHRF
    /\ IdleHRFClient
    /\ IdleResampler

Next ==
    \/ \E r \in RunOptions : StartRun(r)
    \/ FirstRest
    \/ TaskBlock
    \/ InterRest
    \/ LastRest
    \/ ClearRaw

Spec == Init /\ [][Next]_vars

NumTasks == Len(sim.onset_time_list)

\* Each block starts where the one before it ended and no block ends before it
\* starts; a completed run begins at the leading rest's start and ends at the
\* trailing rest's end.
Tiled ==
    /\ \A k \in DOMAIN blocks : blocks[k].start <= blocks[k].end
    /\ \A k \in 2..Len(blocks) : blocks[k].start = blocks[k - 1].end
    /\ pc = "done" =>
        /\ blocks[1].start = (IF sim.rest_before THEN 0 - sim.first_duration ELSE 0)
        /\ blocks[Len(blocks)].end =
               sim.onset_time_list[NumTasks] + sim.duration_list[NumTasks] + sim.last_duration

\* No task runs past the next task's onset.
NoOverlap ==
    \A k \in 1..(NumTasks - 1) :
        sim.onset_time_list[k] + sim.duration_list[k] <= sim.onset_time_list[k + 1]

\* C4 as stated: for every accepted design with strictly increasing onsets,
\* whatever its durations, the blocks simulated tile
\* [first_rest_start, last_rest_end) with no gap and no overlap.
C4_TilingAnyDurations == StrictlyIncreasing(sim.onset_time_list) => Tiled

\* C4 amended: the blocks tile [first_rest_start, last_rest_end) for every accepted
\* design in which each task ends no later than the next onset.
C4_TilingWithoutOverlap == NoOverlap => Tiled

\* A completed run over three tasks with a positive and a zero gap.
C4_Witness ==
    /\ pc = "done"
    /\ NoOverlap
    /\ NumTasks >= 3
    /\ \E k \in 1..(NumTasks - 1) : GapAfter(sim, k) > 0
    /\ \E k \in 1..(NumTasks - 1) : GapAfter(sim, k) = 0

\* The design of the scenario: one task at 2.0 s lasting 3.0 s, first_duration 6,
\* last_duration 8, rest_before set.
Scenario ==
    /\ sim.task_name_list = <<"Task_A">>
    /\ sim.onset_time_list = <<2 * Sec>>
    /\ sim.duration_list = <<3 * Sec>>
    /\ sim.first_duration = 6 * Sec
    /\ sim.last_duration = 8 * Sec
    /\ sim.rest_before

Spans == [k \in DOMAIN blocks |-> <<blocks[k].label, blocks[k].start, blocks[k].end>>]

\* C6: the scenario's complete run simulates exactly Rest [-6, 2], A [2, 5],
\* Rest [5, 13] in this order, and the Time-Index Map then holds
\* Rest -> [[-6, 2], [5, 13]] and A -> [[2, 5]].
C6_SingleTaskScenario ==
    (Scenario /\ pc = "done") =>
        /\ Spans = << <<"Rest", 0 - 6 * Sec, 2 * Sec>>,
                      <<"Task_A", 2 * Sec, 5 * Sec>>,
                      <<"Rest", 5 * Sec, 13 * Sec>> >>
        /\ time_idxs_dict["Rest"] = << <<0 - 6 * Sec, 2 * Sec>>, <<5 * Sec, 13 * Sec>> >>
        /\ time_idxs_dict["Task_A"] = << <<2 * Sec, 5 * Sec>> >>
        /\ time_idxs_dict["Task_B"] = << >>

C6_Witness == Scenario /\ pc = "done" /\ run.bold_chunkwise

\* The length of the first interval recorded under Rest.
FirstRecordedLength == time_idxs_dict["Rest"][1][2] - time_idxs_dict["Rest"][1][1]

\* C7 as stated: with rest_before the first block is a rest block spanning
\* [onset[0] - first_duration, onset[0]], simulated for first_duration; without it
\* the block spans [0, onset[0]]; the recorded interval is as long as the duration
\* handed to the neural model.
C7_LeadingRestFromOnset ==
    Len(blocks) >= 1 =>
        /\ blocks[1].label = "Rest"
        /\ blocks[1].end = sim.onset_time_list[1]
        /\ sim.rest_before =>
               /\ blocks[1].start = sim.onset_time_list[1] - sim.first_duration
               /\ blocks[1].duration = sim.first_duration
        /\ ~sim.rest_before => blocks[1].start = 0
        /\ FirstRecordedLength = blocks[1].duration

WholeMs(x) == x % TicksPerMs = 0

\* C7 amended: with rest_before the first block is a rest block spanning
\* [-first_duration, onset[0]], simulated for first_duration + onset[0]; without it
\* the block spans [0, onset[0]] and is simulated for onset[0]; the recorded
\* interval is that span rounded to 3 decimals, as long as the simulated duration
\* when the span's ends are whole milliseconds.
C7_LeadingRest ==
    Len(blocks) >= 1 =>
        /\ blocks[1].label = "Rest"
        /\ blocks[1].end = sim.onset_time_list[1]
        /\ sim.rest_before =>
               /\ blocks[1].start = 0 - sim.first_duration
               /\ blocks[1].duration = sim.first_duration + sim.onset_time_list[1]
        /\ ~sim.rest_before =>
               /\ blocks[1].start = 0
               /\ blocks[1].duration = sim.onset_time_list[1]
        /\ time_idxs_dict["Rest"][1] = <<Round3(blocks[1].start), Round3(blocks[1].end)>>
        /\ (WholeMs(blocks[1].start) /\ WholeMs(blocks[1].end)) =>
               FirstRecordedLength = blocks[1].duration

\* A leading rest with rest_before set and a first onset after time 0.
C7_Witness ==
    /\ Len(blocks) >= 1
    /\ sim.rest_before
    /\ sim.onset_time_list[1] >= 1 * Sec
    /\ WholeMs(sim.onset_time_list[1])

\* Iteration k of the loop has run to its end.
IterationDone(k) == pc = "done" \/ k < i \/ (k = i /\ pc = "clear")

\* The positions in the log of the rest blocks simulated after task k.
InterRestsAfter(k) ==
    {m \in DOMAIN blocks : blocks[m].kind = "inter_rest" /\ blocks[m].idx = k}

\* C8: for every task k that has a following task, a rest block is simulated
\* between the two if and only if the gap onset[k+1] - (onset[k] + duration[k]) is
\* strictly positive, it spans exactly [onset[k] + duration[k], onset[k+1]] and
\* directly follows task k's block; a zero or negative gap simulates no rest block
\* and raises no error.
C8_InterstitialRest ==
    /\ \A k \in 1..(NumTasks - 1) :
        IterationDone(k) =>
            /\ GapAfter(sim, k) > 0 <=> InterRestsAfter(k) # {}
            /\ Cardinality(InterRestsAfter(k)) <= 1
            /\ \A m \in InterRestsAfter(k) :
                /\ blocks[m].label = "Rest"
                /\ blocks[m].start = sim.onset_time_list[k] + sim.duration_list[k]
                /\ blocks[m].end = sim.onset_time_list[k + 1]
                /\ blocks[m].duration = GapAfter(sim, k)
                /\ blocks[m - 1].kind = "task" /\ blocks[m - 1].idx = k
                /\ m < Len(blocks) =>
                       (blocks[m + 1].kind = "task" /\ blocks[m + 1].idx = k + 1)
            /\ InterRestsAfter(k) = {} =>
                   \A m \in DOMAIN blocks :
                       (blocks[m].kind = "task" /\ blocks[m].idx = k /\ m < Len(blocks)) =>
                           (blocks[m + 1].kind = "task" /\ blocks[m + 1].idx = k + 1)
    /\ pc = "error_inter" => GapAfter(sim, i) > 0

\* A completed run with back-to-back tasks (zero gap, no rest between them) and
\* a positive gap filled by a rest block.
C8_Witness ==
    /\ pc = "done"
    /\ \E k \in 1..(NumTasks - 1) : GapAfter(sim, k) = 0 /\ InterRestsAfter(k) = {}
    /\ \E k \in 1..(NumTasks - 1) : GapAfter(sim, k) > 0 /\ InterRestsAfter(k) # {}

\* The matrix a block is to be integrated with: the caller's matrix of the
\* block's label with the diagonal set to zero.
BlockMatrix(label) ==
    [r \in 1..N |-> [c \in 1..N |-> IF r = c THEN 0 ELSE GivenMatrices[label][r][c]]]

\* C11: for every block of a run the matrix installed in wc.params['Cmat'] during
\* its integration is that block's matrix (Wij_rest for a rest block,
\* Wij_task_dict[label] for a task block) with a zero diagonal.
C11_PerBlockMatrix ==
    \A k \in DOMAIN blocks :
        /\ blocks[k].Cmat = blocks[k].label
        /\ blocks[k].kind # "task" => blocks[k].label = "Rest"
        /\ blocks[k].kind = "task" => blocks[k].label = sim.task_name_list[blocks[k].idx]
        /\ blocks[k].coupling = BlockMatrix(blocks[k].label)

\* A completed run with both tasks and a rest block between two tasks.
C11_Witness ==
    /\ pc = "done"
    /\ \E k \in DOMAIN blocks : blocks[k].label = "Task_B"
    /\ \E k \in DOMAIN blocks : blocks[k].kind = "inter_rest"

\* (c_ee + c_ei)*E + (c_ie + c_ii)*I + Coupling*E over the n fine steps that
\* start at absolute step first.
SynapticActivity(Coupling, first, n) ==
    [r \in 1..N |->
        [j \in 1..n |->
            LET k == first + j - 1
            IN  (c_excexc + c_excinh) * ExcAt(r, k) + (c_inhexc + c_inhinh) * InhAt(r, k)
                + Dot(Coupling[r], [c \in 1..N |-> ExcAt(c, k)], N)]]

\* C12: for every block of a run, task blocks included, the synaptic-activity
\* signal derived for the block is (c_ee + c_ei)*E + (c_ie + c_ii)*I + Coupling*E
\* with Coupling the matrix installed for that block, not the matrix the model
\* was constructed with.
C12_SynapticCoupling ==
    \A k \in DOMAIN blocks :
        blocks[k].syn_act_series =
            SynapticActivity(blocks[k].coupling, blocks[k].first_step,
                             Len(blocks[k].syn_act_series[1]))

\* C13: between two consecutive blocks of a run the driver leaves the neural
\* model's continuation state in place: with clear_raw it removes only the raw
\* excitatory / inhibitory copies, and without clear_raw it clears nothing of the
\* model.
C13_NeuralStateContinuity ==
    [][(pc = "clear" /\ pc' = "task") =>
          /\ wc'.state = wc.state
          /\ wc'.steps = wc.steps
          /\ run.clear_raw => wc' = [wc EXCEPT !.exc = <<>>]
          /\ ~run.clear_raw => wc' = wc]_vars

BlockErrors == {"error_first_rest", "error_task", "error_inter", "error_last"}

\* C14: with bold_chunkwise, a first rest block of fewer fine samples than one
\* repetition time makes generate_full_series raise before any task block is
\* simulated and before the hemodynamic stage is created, so no BOLD sample is
\* emitted; a first block of at least that length never raises this error.
C14_FirstBlockLength ==
    /\ pc = "error_first_rest_length" =>
           /\ run.bold_chunkwise
           /\ Len(blocks) = 1 /\ blocks[1].kind = "first_rest"
           /\ blocks[1].n < Chunksize(run.TR)
           /\ \A label \in KnownLabels : time_idxs_dict[label] = <<>>
           /\ ~hrf.made /\ calls = 0
           /\ BOLD = <<>> /\ t_BOLD = <<>> /\ hrf.BOLD = <<>>
    /\ (run.bold_chunkwise /\ Len(blocks) >= 1 /\ blocks[1].n < Chunksize(run.TR)) =>
           pc = "error_first_rest_length"
    /\ (Len(blocks) >= 1 /\ blocks[1].n >= Chunksize(run.TR)) =>
           pc # "error_first_rest_length"

\* A first rest one fine sample short of a repetition time.
C14_Witness ==
    /\ pc = "error_first_rest_length"
    /\ blocks[1].n >= 1
    /\ blocks[1].n = Chunksize(run.TR) - 1

\* C15: when generate_full_series is called with bold_chunkwise on an instance
\* configured with the model's built-in BOLD and/or built-in chunkwise generation,
\* no error is raised for it; bold, chunkwise and append_outputs are false in every
\* wc.run of the run, and the hemodynamic stage is fed after every block.
C15_ModeConflict ==
    (pc # "ready" /\ run.bold_chunkwise) =>
        /\ pc \notin BlockErrors
        /\ ~sim.bold /\ ~sim.chunkwise /\ ~sim.append_outputs
        /\ \A k \in DOMAIN blocks :
               /\ ~blocks[k].run_args.bold
               /\ ~blocks[k].run_args.chunkwise
               /\ ~blocks[k].run_args.append_outputs
        /\ pc \in {"task", "inter", "last", "clear", "done"} =>
               /\ hrf.made
               /\ calls = Len(blocks)

\* A completed chunkwise run on an instance configured with built-in BOLD,
\* built-in chunkwise and appending, over a block of odd length.
C15_Witness ==
    /\ pc = "done"
    /\ run.bold_chunkwise
    /\ args.bold /\ args.chunkwise /\ args.append_outputs
    /\ \E k \in DOMAIN blocks : blocks[k].duration % (2 * Sec) # 0

\* The intervals of the logged blocks of one label, in simulation order, each
\* rounded to 3 decimals as an entry of the map is.
RECURSIVE EntriesOf(_, _)
EntriesOf(label, bs) ==
    IF bs = <<>> THEN <<>>
    ELSE LET rest == EntriesOf(label, Tail(bs))
         IN  IF Head(bs).label = label
             THEN <<(<<Round3(Head(bs).start), Round3(Head(bs).end)>>)>> \o rest
             ELSE rest

PositiveGaps == {k \in 1..(NumTasks - 1) : GapAfter(sim, k) > 0}

\* C18: after a completed run the Time-Index Map holds exactly one
\* [start_time, end_time] entry for every simulated block, under the block's label
\* and in simulation order, and the number of Rest entries is 2 plus the number
\* of strictly positive gaps between tasks.
C18_TimeIndexMapComplete ==
    pc = "done" =>
        /\ \A label \in {"Rest"} \cup KnownLabels :
               time_idxs_dict[label] = EntriesOf(label, blocks)
        /\ \A k \in DOMAIN blocks : blocks[k].label \in {"Rest"} \cup KnownLabels
        /\ Len(time_idxs_dict["Rest"]) = 2 + Cardinality(PositiveGaps)

\* A completed run over both tasks with a rest between two tasks and two entries
\* under one task label.
C18_Witness ==
    /\ pc = "done"
    /\ Len(time_idxs_dict["Rest"]) >= 3
    /\ Len(time_idxs_dict["Task_A"]) >= 2
    /\ Len(time_idxs_dict["Task_B"]) >= 1

\* The coarse time stamps one unbroken block of total fine steps would leave.
UnbrokenT(total, a_s_rate) ==
    ActivityAfter(NoActivity, [j \in 1..total |-> SampleAt(j)], a_s_rate).t

RECURSIVE FineStepsOf(_)
FineStepsOf(bs) == IF bs = <<>> THEN 0 ELSE Head(bs).n + FineStepsOf(Tail(bs))

\* C19: after any sequence of blocks of any fine-step lengths, the fine-step
\* indices behind the accumulated coarse activity time stamps are exactly the
\* arithmetic sequence, with the step size as common difference, that one unbroken
\* block of the same total length would have produced: no duplicate, no gap, no
\* phase reset at a block boundary.
C19_DriverPhaseContinuity ==
    Len(blocks) >= 1 =>
        /\ sim.activity.t = UnbrokenT(FineStepsOf(blocks), run.a_s_rate)
        /\ \A m \in 1..(Len(sim.activity.t) - 1) :
               sim.activity.t[m + 1] - sim.activity.t[m] = SamplingRateDt(run.a_s_rate) * dt

\* C20: idx_last_t never decreases, and after each block processed with activity
\* saving it equals the sum of the fine-step lengths of all blocks processed so
\* far on the instance.
C20_GlobalOffset ==
    /\ [][sim'.activity.idx_last_t >= sim.activity.idx_last_t]_vars
    /\ []((Len(blocks) >= 1 /\ run.activity) =>
              sim.activity.idx_last_t = FineStepsOf(blocks))

(***************************************************************************)
(* generate_full_series called again on the instance of a completed run   *)
(***************************************************************************)
MaxRuns == 2
MaxRerunTasks == 2

\* A further call of generate_full_series on the same instance, after a run that
\* completed: nothing of the instance is reset before the options are applied.
Rerun(r) ==
    /\ pc = "done"
    /\ RunsLogged(blocks) < MaxRuns
    /\ BeginRun(r)

InitRerun ==
    /\ Init
    /\ Len(args.onset_time_list.v) <= MaxRerunTasks
    /\ \A k \in DOMAIN args.onset_time_list.v : args.onset_time_list.v[k] % TicksPerMs = 0
    /\ ~args.bold /\ ~args.chunkwise

NextRerun ==
    \/ Next
    \/ \E r \in RunOptions : Rerun(r)

SpecRerun == InitRerun /\ [][NextRerun]_vars

\* The fine samples the neural model produced in the logged block b.
SamplesOf(b) == [j \in 1..b.n |-> SampleAt(b.first_step + j - 1)]

\* a is the head of b
IsPrefix(a, b) == Len(a) <= Len(b) /\ SubSeq(b, 1, Len(a)) = a

\* C25: when generate_full_series is called again on the same instance, the
\* hemodynamic stage is created anew by the first chunkwise call of the new run
\* (offset, leftover, physiological state and BOLD hold the new run's leading rest
\* only), while idx_last_t, the accumulated coarse activity series and the
\* Time-Index Map are not reset: the call leaves them as the first run left them and
\* every block only appends to them.
C25_RerunCarryOver ==
    /\ [][(pc = "done" /\ pc' = "first_rest") =>
              /\ sim'.activity = sim.activity
              /\ time_idxs_dict' = time_idxs_dict
              /\ hrf' = hrf /\ input_rest' = input_rest]_vars
    /\ [][/\ sim'.activity.idx_last_t >= sim.activity.idx_last_t
           /\ IsPrefix(sim.activity.t, sim'.activity.t)
           /\ IsPrefix(sim.activity.exc_series, sim'.activity.exc_series)
           /\ \A label \in DOMAIN time_idxs_dict :
                  IsPrefix(time_idxs_dict[label], time_idxs_dict'[label])
           /\ Len(blocks') = Len(blocks) + 1 =>
                  /\ sim'.activity.idx_last_t >=
                         sim.activity.idx_last_t + blocks'[Len(blocks')].n
                  /\ time_idxs_dict'[blocks'[Len(blocks')].label] =
                         Append(time_idxs_dict[blocks'[Len(blocks')].label],
                                Interval(blocks'[Len(blocks')].start, blocks'[Len(blocks')].end))]_vars
    /\ [][(pc = "first_rest" /\ pc' = "task" /\ run.bold_chunkwise) =>
              /\ hrf'.made
              /\ recv' = SamplesOf(blocks'[Len(blocks')])
              /\ hrf'.idxLastT + Len(input_rest') = Len(recv')
              /\ hrf'.X_BOLD = Normalized(hrf', SubSeq(recv', 1, hrf'.idxLastT))
              /\ input_rest' = SubSeq(recv', hrf'.idxLastT + 1, Len(recv'))
              /\ hrf'.BOLD = hrf'.BOLD_chunk
              /\ \A m \in 1..Len(hrf'.t_BOLD) : hrf'.t_BOLD[m] < hrf'.idxLastT * dt]_vars

\* A second chunkwise run, past its leading rest, on an instance whose first run
\* was chunkwise too and left BOLD samples, a leftover, coarse activity and map
\* entries behind.
C25_Witness ==
    /\ RunsLogged(blocks) = 2
    /\ pc = "task"
    /\ run.bold_chunkwise
    /\ blocks[Len(blocks)].kind = "first_rest"
    /\ calls = Len(blocks)
    /\ hrf.idxLastT < FineStepsOf(SubSeq(blocks, 1, Len(blocks) - 1))
    /\ Len(time_idxs_dict["Rest"]) >= 3
    /\ sim.activity.idx_last_t > blocks[Len(blocks)].n
    /\ Len(sim.activity.t) >= 2

\* C22: in a run with chunkwise hemodynamic generation the stage is invoked exactly
\* once for every simulated block, on that block's own output (after the block's
\* integration, before the next block's run and before any discard of the raw
\* buffers), as a first chunk for the leading rest block only and as a later chunk
\* for every other block; no step other than a block invokes it.
C22_FeedPerBlock ==
    [][run.bold_chunkwise =>
          /\ (Len(blocks') = Len(blocks) + 1 /\ pc' # "error_first_rest_length") =>
                 /\ calls' = calls + 1
                 /\ hrf'.made
                 /\ IF blocks'[Len(blocks')].kind = "first_rest"
                    THEN /\ recv' = SamplesOf(blocks'[Len(blocks')])
                         /\ hrf'.idxLastT + Len(input_rest') = Len(recv')
                    ELSE /\ recv' = recv \o SamplesOf(blocks'[Len(blocks')])
                         /\ hrf'.idxLastT + Len(input_rest') =
                                hrf.idxLastT + Len(input_rest) + blocks'[Len(blocks')].n
                         /\ SubSeq(hrf'.X_BOLD, 1, Len(hrf.X_BOLD)) = hrf.X_BOLD
          /\ Len(blocks') = Len(blocks) => (calls' = calls /\ hrf' = hrf /\ recv' = recv)
          /\ wc'.exc # wc.exc /\ wc'.exc = <<>> => calls' = calls]_vars

\* A completed chunkwise run with a block of each kind, each fed once.
C22_Witness ==
    /\ pc = "done"
    /\ run.bold_chunkwise
    /\ calls = Len(blocks)
    /\ \A kind \in {"first_rest", "task", "inter_rest", "last_rest"} :
           \E k \in DOMAIN blocks : blocks[k].kind = kind
    /\ Len(hrf.BOLD) >= 2

\* C26: installing a block's coupling matrix zeroes the diagonal of the caller's
\* matrix object itself: once a block with matrix M has run, the rest matrix or
\* Wij_task_dict entry M came from has a zero diagonal and its off-diagonal entries
\* as given; a matrix not installed so far is as the caller gave it.
C26_InPlaceDiagonal ==
    \A label \in DOMAIN GivenMatrices :
        IF \E k \in DOMAIN blocks : blocks[k].Cmat = label
        THEN \A r \in 1..N, c \in 1..N :
                 sim.Wij[label][r][c] = IF r = c THEN 0 ELSE GivenMatrices[label][r][c]
        ELSE sim.Wij[label] = GivenMatrices[label]

\* A completed run that installed the rest matrix and one task matrix and never
\* the other task matrix.
C26_Witness ==
    /\ pc = "done"
    /\ \E k \in DOMAIN blocks : blocks[k].Cmat = "Task_A"
    /\ \A k \in DOMAIN blocks : blocks[k].Cmat # "Task_B"
    /\ sim.Wij["Task_A"][1][1] = 0 /\ GivenMatrices["Task_A"][1][1] # 0
    /\ sim.Wij["Task_B"][1][1] # 0

====
